---- MODULE Spec2Model ----
(***************************************************************************)
(* Model of the KHR_materials_pbrSpecularGlossiness importer               *)
(* (addons/io_scene_gltf2/blender/imp/KHR_materials_pbrSpecularGlossiness  *)
(* .py): the layout calculator calc_locations, the glossiness-to-roughness *)
(* converter glossiness and the graph assembly pbr_specular_glossiness,    *)
(* run against one MaterialHelper.                                         *)
(*                                                                         *)
(* Scalars (factors, socket values) are fixed-point numbers: the value v   *)
(* is stored as the integer v * One, One = Unit * Unit; the inputs are     *)
(* multiples of 1/Unit, so that the product of two inputs is exact.        *)
(* Locations are plain integers.                                           *)
(***************************************************************************)
EXTENDS Integers, Sequences, FiniteSets, TLC

\* ---------------------------------------------------------------- bounds
\* Resolution of the input grid: factors and alpha are multiples of 1/Unit.
Unit == 10
\* How many units above 1.0 and below 0.0 the glossinessFactor grid extends.
FactorSlack == 4
\* How many times pbr_specular_glossiness may run on the one helper.
MaxRuns == 2
\* How many times another settings-node user may run on the one helper.
MaxOther == 1

\* ------------------------------------------------------ program constants
BlockX == -200
BlockHeight == 460
CenterPad == 20
IorValue == 1000

One == Unit * Unit
Fixed(n) == n * Unit          \* the scalar n/Unit
Max(a, b) == IF a >= b THEN a ELSE b
Min(a, b) == IF a <= b THEN a ELSE b

\* ------------------------------------------------------- Python values
\* None and not-None values; dicts are functions from keys to values.
None == [none |-> TRUE]
Some(v) == [none |-> FALSE, val |-> v]
IsNone(v) == v.none
EmptyDict == << >>
\* dict.get(key, default)
Get(d, key, default) == IF key \in DOMAIN d THEN d[key] ELSE default
\* truth value of an optional dict: None and {} are false
Truthy(v) == IF IsNone(v) THEN FALSE ELSE DOMAIN v.val # {}

ExtName == "KHR_materials_pbrSpecularGlossiness"

VARIABLES
    extensions,     \* mh.pymat.extensions: extension name -> extension dict
    pymat,          \* mh.pymat: [occlusion_texture, normal_texture]
    vertex_color,   \* mh.vertex_color
    emissive,       \* what mh.needs_emissive() returns
    nodes,          \* mh.nodes: the nodes created, in creation order
    links,          \* mh.links: the links created, in creation order
    defaults,       \* socket -> default_value, for the sockets assigned one
    settings_node,  \* mh.settings_node: None or Some(node id)
    locs,           \* what the last calc_locations call returned
    gloss_call,     \* the last glossiness call: the helper's node and link
                    \* counts when it started and when it returned, and
                    \* its roughness_socket
    others          \* runs of other settings-node users so far

vars == <<extensions, pymat, vertex_color, emissive, nodes, links, defaults,
          settings_node, locs, gloss_call, others>>

\* The material helper as the functions below see it.
MH == [extensions |-> extensions, pymat |-> pymat, vertex_color |-> vertex_color,
       emissive |-> emissive, nodes |-> nodes, links |-> links,
       defaults |-> defaults, settings_node |-> settings_node]

\* ------------------------------------------------------- host graph API
InSock(n, name) == [node |-> n, dir |-> "in", name |-> name]
OutSock(n, name) == [node |-> n, dir |-> "out", name |-> name]

\* A node as nodes.new leaves it.
FreshNode(type) ==
    [type |-> type, label |-> "", operation |-> IF type = "ShaderNodeMath" THEN "ADD" ELSE "",
     use_clamp |-> FALSE, is_data |-> FALSE, location |-> <<0, 0>>, width |-> 140]

\* mh.nodes.new(type): the new node's id is NewId(mh)
NewId(mh) == Len(mh.nodes) + 1
NodesNew(mh, type) == [mh EXCEPT !.nodes = Append(@, FreshNode(type))]
\* node.<attr> = value
SetAttr(mh, n, attr, value) == [mh EXCEPT !.nodes[n][attr] = value]
\* mh.links.new(from_socket, to_socket)
LinksNew(mh, from, to) == [mh EXCEPT !.links = Append(@, [from |-> from, to |-> to])]
\* socket.default_value = value
SetDefault(mh, sock, value) ==
    [mh EXCEPT !.defaults =
        [s \in (DOMAIN @) \cup {sock} |-> IF s = sock THEN value ELSE @[s]]]

\* ------------------------------------------- collaborators of the module
\* mh.get_ext(name, default)
get_ext(mh, name, default) == Get(mh.extensions, name, default)

\* mh.needs_emissive()
needs_emissive(mh) == mh.emissive

\* TextureInfo.from_dict(d): the parsed texture reference
TextureInfoFromDict(d) ==
    Some([index |-> d["index"], tex_coord |-> Get(d, "texCoord", 0)])

\* texture(mh, tex_info, location, label, color_socket, alpha_socket, is_data):
\* one image texture node, its Color and Alpha outputs linked to the
\* sockets given (color_socket, alpha_socket: None or Some(socket)).
texture(mh, tex_info, location, label, color_socket, alpha_socket, is_data) ==
    LET tex == NewId(mh)
        m1 == NodesNew(mh, "ShaderNodeTexImage")
        m2 == SetAttr(SetAttr(SetAttr(m1, tex, "label", label),
                              tex, "location", location), tex, "is_data", is_data)
        m3 == IF IsNone(color_socket) THEN m2
              ELSE LinksNew(m2, OutSock(tex, "Color"), color_socket.val)
    IN  IF IsNone(alpha_socket) THEN m3
        ELSE LinksNew(m3, OutSock(tex, "Alpha"), alpha_socket.val)

\* make_settings_node(mh): creates the settings group node; its id is the
\* NewId of the helper it is given.
make_settings_node(mh) ==
    SetAttr(NodesNew(mh, "ShaderNodeGroup"), NewId(mh), "label", "glTF Material Output")

\* base_color(mh, is_diffuse=True, location, color_socket, alpha_socket)
base_color(mh, location, color_socket, alpha_socket) ==
    LET ext == get_ext(mh, ExtName, EmptyDict)
        tex_info == Get(ext, "diffuseTexture", None)
    IN  IF ~IsNone(tex_info)
        THEN texture(mh, tex_info, location, "DIFFUSE",
                     Some(color_socket), Some(alpha_socket), FALSE)
        ELSE IF mh.vertex_color
        THEN LET vc == NewId(mh)
                 m1 == SetAttr(NodesNew(mh, "ShaderNodeVertexColor"), vc, "location", location)
             IN  LinksNew(m1, OutSock(vc, "Color"), color_socket)
        ELSE SetDefault(SetDefault(mh, color_socket, <<One, One, One>>), alpha_socket, One)

\* emission(mh, location, color_socket, strength_socket)
emission(mh, location, color_socket, strength_socket) ==
    IF needs_emissive(mh)
    THEN SetDefault(SetDefault(mh, color_socket, <<One, One, One>>), strength_socket, One)
    ELSE mh

\* normal(mh, location, normal_socket)
normal(mh, location, normal_socket) ==
    IF IsNone(mh.pymat.normal_texture) THEN mh
    ELSE LET nm == NewId(mh)
             m1 == SetAttr(NodesNew(mh, "ShaderNodeNormalMap"), nm, "location", location)
             m2 == LinksNew(m1, OutSock(nm, "Normal"), normal_socket)
         IN  texture(m2, mh.pymat.normal_texture, location, "NORMALMAP",
                     Some(InSock(nm, "Color")), None, TRUE)

\* occlusion(mh, location, occlusion_socket)
occlusion(mh, location, occlusion_socket) ==
    IF IsNone(mh.pymat.occlusion_texture) THEN mh
    ELSE texture(mh, mh.pymat.occlusion_texture, location, "OCCLUSION",
                 Some(occlusion_socket), None, TRUE)

\* color_factor_and_texture(mh, location, label, socket, factor, tex_info)
color_factor_and_texture(mh, location, label, socket, factor, tex_info) ==
    IF IsNone(tex_info) THEN SetDefault(mh, socket, factor)
    ELSE IF factor # <<One, One, One>>
    THEN LET mix == NewId(mh)
             m1 == NodesNew(mh, "ShaderNodeMix")
             m2 == SetAttr(SetAttr(SetAttr(m1, mix, "label", label), mix, "operation", "MULTIPLY"),
                           mix, "location", location)
             m3 == LinksNew(m2, OutSock(mix, "Result"), socket)
             m4 == SetDefault(m3, InSock(mix, "B"), factor)
         IN  texture(m4, tex_info, location, label, Some(InSock(mix, "A")), None, FALSE)
    ELSE texture(mh, tex_info, location, label, Some(socket), None, FALSE)

\* ------------------------------------------------------------ the module
\* glossiness, Case A: the value given to the roughness socket
unclamped_roughness(factor) == One - factor
constant_roughness(factor) == Max(0, Min(One, One - factor))

\* glossiness: whether the multiply node is needed
always_multiply(factor) == TRUE
never_multiply(factor) == FALSE
needs_multiply(factor) == factor # One

\* glossiness, step 1: the subtract node (1 - Glossiness), its output
\* linked to the roughness socket.  The node's id is NewId(mh).
subtract_stage_keeps_default(mh, location, roughness_socket) ==
    LET subtract_node == NewId(mh)
        s1 == NodesNew(mh, "ShaderNodeMath")
        s2 == SetAttr(s1, subtract_node, "label", "1 - Glossiness")
        s3 == SetAttr(s2, subtract_node, "operation", "SUBTRACT")
        s4 == SetAttr(s3, subtract_node, "location", <<location[1] - 140, location[2] - 50>>)
        s5 == SetDefault(s4, InSock(subtract_node, "0"), One)
        s6 == SetAttr(s5, subtract_node, "use_clamp", TRUE)
        s7 == SetDefault(s6, roughness_socket, 0)
    IN  LinksNew(s7, OutSock(subtract_node, "0"), roughness_socket)
subtract_stage(mh, location, roughness_socket) ==
    LET x == location[1]
        y == location[2]
        subtract_node == NewId(mh)
        s1 == NodesNew(mh, "ShaderNodeMath")
        s2 == SetAttr(s1, subtract_node, "label", "1 - Glossiness")
        s3 == SetAttr(s2, subtract_node, "operation", "SUBTRACT")
        s4 == SetAttr(s3, subtract_node, "location", <<x - 140, y - 50>>)
        s5 == SetDefault(s4, InSock(subtract_node, "0"), One)
        s6 == SetAttr(s5, subtract_node, "use_clamp", TRUE)
    IN  LinksNew(s6, OutSock(subtract_node, "0"), roughness_socket)

\* glossiness, step 2: the multiply node (Factor * Texture.alpha), its
\* output linked to the subtract node's second input.  Its id is NewId(mh).
multiply_stage_unclamped(mh, factor, location, glossiness_input_socket) ==
    LET multiply_node == NewId(mh)
        p1 == NodesNew(mh, "ShaderNodeMath")
        p2 == SetAttr(p1, multiply_node, "label", "Glossiness Factor")
        p3 == SetAttr(p2, multiply_node, "operation", "MULTIPLY")
        p4 == SetAttr(p3, multiply_node, "location", <<location[1] - 340, location[2]>>)
        p5 == SetDefault(p4, InSock(multiply_node, "1"), factor)
    IN  LinksNew(p5, OutSock(multiply_node, "0"), glossiness_input_socket)
multiply_stage(mh, factor, location, glossiness_input_socket) ==
    LET x == location[1]
        y == location[2]
        multiply_node == NewId(mh)
        p1 == NodesNew(mh, "ShaderNodeMath")
        p2 == SetAttr(p1, multiply_node, "label", "Glossiness Factor")
        p3 == SetAttr(p2, multiply_node, "operation", "MULTIPLY")
        p4 == SetAttr(p3, multiply_node, "location", <<x - 340, y>>)
        p5 == SetDefault(p4, InSock(multiply_node, "1"), factor)
        p6 == SetAttr(p5, multiply_node, "use_clamp", TRUE)
    IN  LinksNew(p6, OutSock(multiply_node, "0"), glossiness_input_socket)

\* glossiness(mh, ext, location, roughness_socket)
glossiness(mh, ext, location, roughness_socket) ==
    LET factor == Get(ext, "glossinessFactor", One)
        tex_info_dict == Get(ext, "specularGlossinessTexture", None)
        tex_info == IF Truthy(tex_info_dict) THEN TextureInfoFromDict(tex_info_dict.val)
                    ELSE None
        x == location[1]
        y == location[2]
    IN  IF IsNone(tex_info)
        THEN SetDefault(mh, roughness_socket, constant_roughness(factor))
        ELSE
        LET subtract_node == NewId(mh)
            m1 == subtract_stage(mh, location, roughness_socket)
            glossiness_input_socket == InSock(subtract_node, "1")
        IN  IF needs_multiply(factor)
            THEN
            LET multiply_node == NewId(m1)
                m2 == multiply_stage(m1, factor, location, glossiness_input_socket)
                current_gloss_value_socket == InSock(multiply_node, "0")
                x_texture == x - 540
            IN  texture(m2, tex_info, <<x_texture, y>>, "SPECULAR GLOSSINESS",
                        None, Some(current_gloss_value_socket), TRUE)
            ELSE
            LET current_gloss_value_socket == glossiness_input_socket
                x_texture == x - 340
            IN  texture(m1, tex_info, <<x_texture, y>>, "SPECULAR GLOSSINESS",
                        None, Some(current_gloss_value_socket), TRUE)

\* calc_locations: "if <the block is active>: y -= height"
advance_half(y, active, height) == IF active THEN y - height \div 2 ELSE y
advance(y, active, height) == IF active THEN y - height ELSE y

\* calc_locations: the centering offset
center_offset_unguarded(total_height) == total_height \div 2 - CenterPad
center_offset(total_height) ==
    IF total_height > 0 THEN total_height \div 2 - CenterPad ELSE 0

\* calc_locations(mh, ext)
calc_locations(mh, ext) ==
    LET x == BlockX
        height == BlockHeight
        y0 == 0
        y1 == advance(y0, ~IsNone(mh.pymat.occlusion_texture), height)
        y2 == advance(y1, "diffuseTexture" \in DOMAIN ext \/ mh.vertex_color, height)
        y3 == advance(y2, "specularGlossinessTexture" \in DOMAIN ext, height)
        y4 == advance(y3, ~IsNone(mh.pymat.normal_texture), height)
        y5 == advance(y4, "specularGlossinessTexture" \in DOMAIN ext, height)
        y6 == advance(y5, needs_emissive(mh), height)
        placed == [occlusion |-> <<x, y0>>, diffuse |-> <<x, y1>>,
                   glossiness |-> <<x, y2>>, normal |-> <<x, y3>>,
                   specular |-> <<x, y4>>, emission |-> <<x, y5>>]
        total_height == -y6
        y_offset == center_offset(total_height)
    IN  [key \in DOMAIN placed |-> <<placed[key][1], placed[key][2] + y_offset>>]

\* pbr_specular_glossiness, the shader skeleton: the principled BSDF node
\* and the material output node, linked.  The BSDF node's id is NewId(mh).
skeleton(mh) ==
    LET pbr_node == NewId(mh)
        m1 == NodesNew(mh, "ShaderNodeBsdfPrincipled")
        out_node == NewId(m1)
        m2 == NodesNew(m1, "ShaderNodeOutputMaterial")
        m3 == SetAttr(m2, pbr_node, "location", <<10, 300>>)
        m4 == SetAttr(m3, out_node, "location", <<300, 300>>)
    IN  LinksNew(m4, OutSock(pbr_node, "0"), InSock(out_node, "0"))

\* pbr_specular_glossiness, the occlusion wiring
occlusion_wiring_always_makes(mh, location) ==
    IF ~IsNone(mh.pymat.occlusion_texture)
    THEN LET made == make_settings_node(mh)
             m0 == [made EXCEPT !.settings_node = Some(NewId(mh))]
             m1 == SetAttr(SetAttr(m0, m0.settings_node.val, "location", <<10, 425>>),
                           m0.settings_node.val, "width", 240)
         IN  occlusion(m1, location, InSock(m1.settings_node.val, "Occlusion"))
    ELSE mh
occlusion_wiring(mh, location) ==
    IF ~IsNone(mh.pymat.occlusion_texture)
    THEN LET m1 == IF IsNone(mh.settings_node)
                   THEN LET made == make_settings_node(mh)
                            m0 == [made EXCEPT !.settings_node = Some(NewId(mh))]
                        IN  SetAttr(SetAttr(m0, m0.settings_node.val, "location", <<10, 425>>),
                                    m0.settings_node.val, "width", 240)
                   ELSE mh
         IN  occlusion(m1, location, InSock(m1.settings_node.val, "Occlusion"))
    ELSE mh

\* pbr_specular_glossiness, the IOR default of the BSDF node
keep_ior(mh, pbr_node) == mh
set_ior(mh, pbr_node) == SetDefault(mh, InSock(pbr_node, "IOR"), IorValue * One)

\* pbr_specular_glossiness(mh), up to the glossiness call
pbr_before_glossiness(mh) ==
    LET ext == get_ext(mh, ExtName, EmptyDict)
        pbr_node == NewId(mh)
        m1 == skeleton(mh)
        locations == calc_locations(m1, ext)
        m2 == base_color(m1, locations["diffuse"],
                         InSock(pbr_node, "Base Color"), InSock(pbr_node, "Alpha"))
        m3 == emission(m2, locations["emission"],
                       InSock(pbr_node, "Emission Color"), InSock(pbr_node, "Emission Strength"))
        m4 == normal(m3, locations["normal"], InSock(pbr_node, "Normal"))
        m5 == occlusion_wiring(m4, locations["occlusion"])
        m6 == set_ior(m5, pbr_node)
    IN  color_factor_and_texture(m6, locations["specular"], "Specular Color",
                                 InSock(pbr_node, "Specular Tint"),
                                 Get(ext, "specularFactor", <<One, One, One>>),
                                 Get(ext, "specularGlossinessTexture", None))

\* pbr_specular_glossiness(mh)
pbr_specular_glossiness(mh) ==
    LET ext == get_ext(mh, ExtName, EmptyDict)
        pbr_node == NewId(mh)
        locations == calc_locations(mh, ext)
    IN  glossiness(pbr_before_glossiness(mh), ext, locations["glossiness"],
                   InSock(pbr_node, "Roughness"))

\* Another handler of the same material that needs the settings node: it
\* creates the node only when the helper has none yet.
settings_node_user(mh) ==
    IF ~IsNone(mh.pymat.occlusion_texture) /\ IsNone(mh.settings_node)
    THEN [make_settings_node(mh) EXCEPT !.settings_node = Some(NewId(mh))]
    ELSE mh

\* ------------------------------------------------------------- the inputs
FactorGrid == {Fixed(f) : f \in (0 - FactorSlack)..(Unit + FactorSlack)}
AlphaGrid == {Fixed(a) : a \in 0..Unit}
TexDict(i) == "index" :> i

GlossinessFactorItems == {EmptyDict} \cup {"glossinessFactor" :> f : f \in FactorGrid}
SpecGlossTextureItems ==
    {EmptyDict} \cup {"specularGlossinessTexture" :> t : t \in {None, Some(EmptyDict), Some(TexDict(0))}}
DiffuseTextureItems == {EmptyDict, "diffuseTexture" :> Some(TexDict(1))}
SpecularFactorItems == {EmptyDict, "specularFactor" :> <<Fixed(5), Fixed(5), Fixed(5)>>}
OptTexture(i) == {None, Some(TexDict(i))}

\* The number of BSDF nodes is the number of pbr_specular_glossiness runs.
BsdfNodes == {n \in DOMAIN nodes : nodes[n].type = "ShaderNodeBsdfPrincipled"}
Runs == Cardinality(BsdfNodes)

Init ==
    /\ \/ extensions = EmptyDict
       \/ \E gf \in GlossinessFactorItems, sg \in SpecGlossTextureItems,
             df \in DiffuseTextureItems, sf \in SpecularFactorItems :
             extensions = (ExtName :> (gf @@ sg @@ df @@ sf))
    /\ \E occ \in OptTexture(2), nrm \in OptTexture(3) :
          pymat = [occlusion_texture |-> occ, normal_texture |-> nrm]
    /\ vertex_color \in BOOLEAN
    /\ emissive \in BOOLEAN
    /\ nodes = << >>
    /\ links = << >>
    /\ defaults = << >>
    /\ settings_node = None
    /\ locs = << >>
    /\ gloss_call = None
    /\ others = 0

Install(mh) ==
    /\ nodes' = mh.nodes
    /\ links' = mh.links
    /\ defaults' = mh.defaults
    /\ settings_node' = mh.settings_node
    /\ UNCHANGED <<extensions, pymat, vertex_color, emissive>>

PbrSpecularGlossiness ==
    /\ Runs < MaxRuns
    /\ Install(pbr_specular_glossiness(MH))
    /\ locs' = calc_locations(MH, get_ext(MH, ExtName, EmptyDict))
    /\ gloss_call' = Some([nodes |-> Len(pbr_before_glossiness(MH).nodes),
                           links |-> Len(pbr_before_glossiness(MH).links),
                           nodes_out |-> Len(pbr_specular_glossiness(MH).nodes),
                           links_out |-> Len(pbr_specular_glossiness(MH).links),
                           roughness_socket |-> InSock(NewId(MH), "Roughness")])
    /\ UNCHANGED others

SettingsNodeUser ==
    /\ others < MaxOther
    /\ Install(settings_node_user(MH))
    /\ others' = others + 1
    /\ UNCHANGED <<locs, gloss_call>>

Next == PbrSpecularGlossiness \/ SettingsNodeUser

Spec == Init /\ [][Next]_vars

TypeOK == Runs <= MaxRuns

\* --------------------------------------------- reading the built graph
\* The extension dict the handler works on, and what it holds.
Ext == get_ext(MH, ExtName, EmptyDict)
Factor == IF "glossinessFactor" \in DOMAIN Ext THEN Ext["glossinessFactor"] ELSE One
\* A specularGlossinessTexture is bound: the key holds a texture reference.
TextureBound ==
    /\ "specularGlossinessTexture" \in DOMAIN Ext
    /\ ~Ext["specularGlossinessTexture"].none
    /\ "index" \in DOMAIN Ext["specularGlossinessTexture"].val
Clamp01(v) == IF v < 0 THEN 0 ELSE IF v > One THEN One ELSE v
Mul(a, b) == (a * b) \div One

\* The links that end in a socket.
LinksTo(sock) == {i \in DOMAIN links : links[i].to = sock}
HasDefault(sock) == sock \in DOMAIN defaults

\* The value a socket carries when every image texture's alpha is `alpha`:
\* a linked input takes the value of the output linked last, an unlinked
\* one its default value; a math node applies its operation to its two
\* inputs and clamps the result to [0, 1] when use_clamp is set.
RECURSIVE SocketValue(_, _)
SocketValue(sock, alpha) ==
    IF sock.dir = "in"
    THEN IF LinksTo(sock) # {}
         THEN SocketValue(links[CHOOSE i \in LinksTo(sock) : \A j \in LinksTo(sock) : j <= i].from,
                          alpha)
         ELSE defaults[sock]
    ELSE LET n == nodes[sock.node]
         IN  IF n.type = "ShaderNodeTexImage" THEN alpha
             ELSE LET a == SocketValue(InSock(sock.node, "0"), alpha)
                      b == SocketValue(InSock(sock.node, "1"), alpha)
                      r == CASE n.operation = "SUBTRACT" -> a - b
                             [] n.operation = "MULTIPLY" -> Mul(a, b)
                             [] OTHER -> a + b
                  IN  IF n.use_clamp THEN Clamp01(r) ELSE r

\* The nodes and links the last glossiness call created.
GlossNodes == IF IsNone(gloss_call) THEN {}
              ELSE (gloss_call.val.nodes + 1)..gloss_call.val.nodes_out
GlossLinks == IF IsNone(gloss_call) THEN {}
              ELSE (gloss_call.val.links + 1)..gloss_call.val.links_out
GlossMath == {n \in GlossNodes : nodes[n].type = "ShaderNodeMath"}
GlossTex == {n \in GlossNodes : nodes[n].type = "ShaderNodeTexImage"}
RoughnessSocket == gloss_call.val.roughness_socket
Called == ~IsNone(gloss_call)

\* The subtract node wired as the converter's last stage: clamped, input 0
\* fixed to 1.0 and unlinked, output linked (once) to the roughness socket.
IsSubtractStage(n) ==
    /\ nodes[n].operation = "SUBTRACT"
    /\ nodes[n].use_clamp
    /\ HasDefault(InSock(n, "0")) /\ defaults[InSock(n, "0")] = One
    /\ LinksTo(InSock(n, "0")) = {}
    /\ \E i \in GlossLinks : /\ LinksTo(RoughnessSocket) = {i}
                             /\ links[i].from = OutSock(n, "0")
\* Socket `sock` is fed by exactly one link, from the alpha output of the
\* texture node the call created.
FedByTextureAlpha(sock) ==
    \E i \in GlossLinks, t \in GlossTex :
        /\ LinksTo(sock) = {i}
        /\ links[i].from = OutSock(t, "Alpha")
        /\ GlossTex = {t}

\* C1: for every glossinessFactor and every texture alpha in [0, 1] of the
\* grid, the value delivered to the roughness socket of every BSDF node
\* built is clamp(1 - glossinessFactor * alpha, 0, 1), alpha being 1 when
\* no texture is bound; so it is never below 0 nor above 1.
C1_RoughnessContract ==
    \A p \in BsdfNodes : \A alpha \in AlphaGrid :
        LET delivered == SocketValue(InSock(p, "Roughness"), alpha)
            a == IF TextureBound THEN alpha ELSE One
        IN  /\ delivered = Clamp01(One - Mul(Factor, a))
            /\ delivered >= 0 /\ delivered <= One
\* a graph built for a bound texture and a factor above 1.0
C1_Witness == Called /\ TextureBound /\ Factor > One /\ GlossMath # {}

\* C2: with no specularGlossinessTexture bound, glossiness sets the
\* roughness socket's default value to clamp(1 - factor, 0, 1), factor
\* being 1.0 when glossinessFactor is absent, and creates no node, no link.
C2_CaseA ==
    (Called /\ ~TextureBound) =>
        /\ HasDefault(RoughnessSocket)
        /\ defaults[RoughnessSocket] = Clamp01(One - Factor)
        /\ (Factor = Fixed(3) => defaults[RoughnessSocket] = Fixed(Unit - 3))
        /\ (Factor = Fixed(Unit + 4) => defaults[RoughnessSocket] = 0)
        /\ ("glossinessFactor" \notin DOMAIN Ext => defaults[RoughnessSocket] = 0)
        /\ GlossNodes = {} /\ GlossLinks = {}
\* Case A ran with a factor strictly between 0 and 1
C2_Witness ==
    Called /\ ~TextureBound /\ Factor = Fixed(3) /\ defaults[RoughnessSocket] = Fixed(Unit - 3)

\* C3: with a texture bound and glossinessFactor 1.0 or absent, glossiness
\* creates exactly one math node, the clamped SUBTRACT node with input 0
\* fixed to 1.0, input 1 fed by the texture's alpha and its output linked
\* to the roughness socket; it creates no MULTIPLY node.
C3_CaseB ==
    (Called /\ TextureBound /\ Factor = One) =>
        /\ Cardinality(GlossMath) = 1
        /\ \A n \in GlossMath : IsSubtractStage(n) /\ FedByTextureAlpha(InSock(n, "1"))
        /\ \A n \in GlossNodes : nodes[n].operation # "MULTIPLY"
\* Case B ran, with the factor absent
C3_Witness ==
    Called /\ TextureBound /\ "glossinessFactor" \notin DOMAIN Ext /\ Cardinality(GlossMath) = 1

\* C4: with a texture bound and glossinessFactor other than 1.0, glossiness
\* creates exactly two math nodes: a clamped MULTIPLY node, input 1 set to
\* the factor and input 0 fed by the texture's alpha, its output linked to
\* input 1 of the clamped SUBTRACT node (input 0 = 1.0), whose output is
\* linked to the roughness socket.
C4_CaseC ==
    (Called /\ TextureBound /\ Factor # One) =>
        /\ Cardinality(GlossMath) = 2
        /\ \E sub \in GlossMath, mul \in GlossMath :
              /\ sub # mul
              /\ IsSubtractStage(sub)
              /\ nodes[mul].operation = "MULTIPLY"
              /\ nodes[mul].use_clamp
              /\ HasDefault(InSock(mul, "1")) /\ defaults[InSock(mul, "1")] = Factor
              /\ LinksTo(InSock(mul, "1")) = {}
              /\ FedByTextureAlpha(InSock(mul, "0"))
              /\ \E i \in GlossLinks : /\ LinksTo(InSock(sub, "1")) = {i}
                                       /\ links[i].from = OutSock(mul, "0")
\* Case C ran with factor 0.5
C4_Witness ==
    Called /\ TextureBound /\ Factor = Fixed(5) /\ Cardinality(GlossMath) = 2

\* The settings nodes made so far: one per make_settings_node call.
SettingsNodes == {n \in DOMAIN nodes : nodes[n].type = "ShaderNodeGroup"}

\* C5: on one material helper, after any sequence of handlers that need
\* the occlusion settings node, make_settings_node has been called at most
\* once: only for a material with an occlusion texture, the node made is
\* the one mh.settings_node holds, and every occlusion wiring goes to it.
C5_SettingsNodeOnce ==
    /\ Cardinality(SettingsNodes) <= 1
    /\ SettingsNodes # {} =>
          /\ ~IsNone(pymat.occlusion_texture)
          /\ ~IsNone(settings_node)
          /\ SettingsNodes = {settings_node.val}
    /\ \A i \in DOMAIN links :
          links[i].to.name = "Occlusion" =>
              /\ ~IsNone(settings_node)
              /\ links[i].to = InSock(settings_node.val, "Occlusion")
\* pbr_specular_glossiness ran twice after another handler made the node
C5_Witness == Runs = 2 /\ SettingsNodes = {1} /\ others = 1

\* The blocks of the layout, and when the layout counts one as active.
Blocks == <<"occlusion", "diffuse", "glossiness", "normal", "specular", "emission">>
Active(b) ==
    CASE b = "occlusion" -> ~IsNone(pymat.occlusion_texture)
      [] b = "diffuse" -> "diffuseTexture" \in DOMAIN Ext \/ vertex_color
      [] b = "glossiness" -> "specularGlossinessTexture" \in DOMAIN Ext
      [] b = "normal" -> ~IsNone(pymat.normal_texture)
      [] b = "specular" -> "specularGlossinessTexture" \in DOMAIN Ext
      [] b = "emission" -> emissive
ActiveBlocks == {i \in DOMAIN Blocks : Active(Blocks[i])}
Laid == DOMAIN locs # {}
Abs(v) == IF v < 0 THEN 0 - v ELSE v

\* C6: the locations calc_locations returns for two distinct active blocks
\* have y coordinates at least the block height (460) apart.
C6_NoOverlap ==
    Laid => \A i \in ActiveBlocks, j \in ActiveBlocks :
                i # j => Abs(locs[Blocks[i]][2] - locs[Blocks[j]][2]) >= BlockHeight
\* a layout with all six blocks active
C6_Witness == Laid /\ Cardinality(ActiveBlocks) = 6

\* Where block i sits before centering: one block height down for every
\* active block before it.
Stacked(i) == 0 - BlockHeight * Cardinality({j \in ActiveBlocks : j < i})
TotalHeight == BlockHeight * Cardinality(ActiveBlocks)

\* C7 as stated: every block is shifted by half the total stacked height
\* minus 20, for every combination of active blocks, and x stays -200.
C7_ShiftAlways ==
    Laid => \A i \in DOMAIN Blocks :
                /\ locs[Blocks[i]][1] = BlockX
                /\ locs[Blocks[i]][2] - Stacked(i) = TotalHeight \div 2 - CenterPad

\* C7 amended: every block is shifted by the same amount, half the total
\* stacked height minus 20 when at least one block is active and 0 when
\* none is; x stays -200.
C7_ShiftWhenStacked ==
    Laid => \A i \in DOMAIN Blocks :
                /\ locs[Blocks[i]][1] = BlockX
                /\ locs[Blocks[i]][2] - Stacked(i) =
                      IF ActiveBlocks # {} THEN TotalHeight \div 2 - CenterPad ELSE 0
\* a layout with no active block: nothing is shifted
C7_Witness == Laid /\ ActiveBlocks = {} /\ \A i \in DOMAIN Blocks : locs[Blocks[i]] = <<BlockX, 0>>

\* The input sockets this module itself wires or sets.
MathNodes == {n \in DOMAIN nodes : nodes[n].type = "ShaderNodeMath"}
OutputNodes == {n \in DOMAIN nodes : nodes[n].type = "ShaderNodeOutputMaterial"}
OwnSockets ==
    {InSock(n, k) : n \in MathNodes, k \in {"0", "1"}}
    \cup {InSock(p, k) : p \in BsdfNodes, k \in {"Roughness", "IOR"}}
    \cup {InSock(o, "0") : o \in OutputNodes}

\* C8: in the graphs glossiness and the BSDF/output skeleton build, every
\* input socket that is linked is linked exactly once and carries no
\* default value set by the module: the roughness socket is either linked
\* or has its default set, never both; subtract input 0 and multiply input
\* 1 carry defaults and no link; subtract input 1 has exactly one link, from
\* the multiply output or from the texture alpha.
C8_WiredOnce ==
    /\ \A s \in OwnSockets :
          /\ Cardinality(LinksTo(s)) <= 1
          /\ ~(HasDefault(s) /\ LinksTo(s) # {})
    /\ \A p \in BsdfNodes :
          HasDefault(InSock(p, "Roughness")) # (LinksTo(InSock(p, "Roughness")) # {})
    /\ \A o \in OutputNodes : Cardinality(LinksTo(InSock(o, "0"))) = 1
    /\ \A n \in MathNodes :
          /\ nodes[n].operation = "SUBTRACT" =>
                /\ HasDefault(InSock(n, "0")) /\ LinksTo(InSock(n, "0")) = {}
                /\ \E i \in DOMAIN links :
                      /\ LinksTo(InSock(n, "1")) = {i}
                      /\ \/ /\ links[i].from.node \in MathNodes
                            /\ nodes[links[i].from.node].operation = "MULTIPLY"
                         \/ links[i].from.name = "Alpha"
          /\ nodes[n].operation = "MULTIPLY" =>
                HasDefault(InSock(n, "1")) /\ LinksTo(InSock(n, "1")) = {}
\* two graphs built on the one helper, each with both math nodes
C8_Witness == Runs = 2 /\ Cardinality(MathNodes) = 4

\* C9: the IOR input of every BSDF node pbr_specular_glossiness created
\* has default value exactly 1000 and no link, whatever the extension
\* holds (or when it is absent) and whatever the material flags are.
C9_IorDefault ==
    \A p \in BsdfNodes :
        /\ HasDefault(InSock(p, "IOR"))
        /\ defaults[InSock(p, "IOR")] = IorValue * One
        /\ LinksTo(InSock(p, "IOR")) = {}
\* the handler ran on a material without the extension
C9_Witness == Runs > 0 /\ extensions = EmptyDict /\ HasDefault(InSock(1, "IOR"))

\* C10 as stated: calc_locations advances y for the glossiness block
\* exactly when glossiness takes the texture path and creates nodes.
C10_LayoutAgreesWithBuilder ==
    (Laid /\ Called) =>
        ((locs["normal"][2] # locs["glossiness"][2]) <=> (GlossNodes # {}))

====
